---- MODULE Spec2Model ----
(***************************************************************************)
(* Model of peas/tasks/targetweights.py: class TargetWeightsTask.           *)
(*                                                                         *)
(* Numbers.  Weights are integers (one unit is a tenth of a weight, so     *)
(* max_weight = 10 stands for 1.0).  Every quantity the code derives from  *)
(* them that need not be an integer is kept as an exact fraction           *)
(* <<numerator, denominator>>.  Grid coordinates, which numpy spaces       *)
(* linearly over [-1, 1], are kept as integer numerators over the common   *)
(* denominator CoordDen(substrate_shape).  Probabilities (noise, and the   *)
(* draws of np.random.random) are numerators over RandDen.                 *)
(*                                                                         *)
(* Arrays.  An n-dimensional array is a function from index tuples         *)
(* (1-based) to values; a matrix is a sequence of rows.                    *)
(***************************************************************************)
EXTENDS Integers, Sequences, FiniteSets, TLC

VARIABLES
    pc,        \* "new": no constructor call yet; "ready": __init__ returned; "failed": __init__ raised
    args,      \* the arguments of the constructor call
    self,      \* the attributes of the TargetWeightsTask object (attribute name -> value)
    network,   \* the caller's candidate: [cm |-> matrix], as it is after the last call
    lastCall,  \* the last method call: its name, its arguments as passed, and how it ended
    dirs       \* the file system: the directories that exist (paths relative to the cwd)

vars == <<pc, args, self, network, lastCall, dirs>>

----------------------------------------------------------------------------
(* Arithmetic helpers *)

Abs(x) == IF x < 0 THEN -x ELSE x

Min2(a, b) == IF a < b THEN a ELSE b

Max2(a, b) == IF a > b THEN a ELSE b

RECURSIVE Product(_)
Product(s) == IF s = <<>> THEN 1 ELSE s[1] * Product(Tail(s))

RECURSIVE SumSeq(_)
SumSeq(s) == IF s = <<>> THEN 0 ELSE s[1] + SumSeq(Tail(s))

----------------------------------------------------------------------------
(* Row-major indexing, shared by the grid, locs and the reshape *)

\* The index tuple (1-based) of the k-th element (0-based) of an array of shape shp.
RECURSIVE Unravel(_, _)
Unravel(k, shp) ==
    IF shp = <<>> THEN <<>>
    ELSE LET rest == Product(Tail(shp))
         IN  <<(k \div rest) + 1>> \o Unravel(k % rest, Tail(shp))

\* The position (0-based) of index tuple idx in an array of shape shp.
RECURSIVE Ravel(_, _)
Ravel(idx, shp) ==
    IF shp = <<>> THEN 0
    ELSE (idx[1] - 1) * Product(Tail(shp)) + Ravel(Tail(idx), Tail(shp))

Indices(shp) == { Unravel(k, shp) : k \in 0 .. (Product(shp) - 1) }

\* Matrices: a sequence of rows.
MatShape(m) == <<Len(m), Len(m[1])>>

MatFlat(m) ==
    LET c == Len(m[1])
    IN  [k \in 1 .. (Len(m) * c) |-> m[((k - 1) \div c) + 1][((k - 1) % c) + 1]]

\* a.reshape(r, c) of an n-dimensional array a of shape shp
Reshape2(a, shp, r, c) ==
    [i \in 1 .. r |-> [j \in 1 .. c |-> a[Unravel((i - 1) * c + (j - 1), shp)]]]

----------------------------------------------------------------------------
(* The coordinate grid: np.mgrid[[slice(-1, 1, s*1j) for s in cm_shape]] *)

\* The common denominator of the coordinates of a shape.
RECURSIVE CoordDen(_)
CoordDen(shp) ==
    IF shp = <<>> THEN 1
    ELSE (IF shp[1] > 1 THEN shp[1] - 1 ELSE 1) * CoordDen(Tail(shp))

\* slice(-1, 1, s*1j): s points from -1 to 1, both included; one point is -1.
Linspace(s, den) ==
    [k \in 1 .. s |-> IF s = 1 THEN -den ELSE -den + ((2 * den) \div (s - 1)) * (k - 1)]

\* coords[a][idx]: the a-th coordinate of the connection at index idx.
Mgrid(cm_shape, den) ==
    [a \in 1 .. Len(cm_shape) |->
        [idx \in Indices(cm_shape) |-> Linspace(cm_shape[a], den)[idx[a]]]]

\* coords.transpose(range(1, n+1) + [0]).reshape(-1, n): one row per connection.
Locs(coords, cm_shape) ==
    [k \in 1 .. Product(cm_shape) |->
        [a \in 1 .. Len(cm_shape) |-> coords[a][Unravel(k - 1, cm_shape)]]]

----------------------------------------------------------------------------
(* Override rules: the (where, what) pairs of funcs *)

\* The callables the callers of this model pass as `where`: each takes coords and
\* returns a boolean array of cm's shape.
\*   first_neg:  lambda coords: coords[0] < 0
\*   self_conn:  lambda coords: source coordinates == target coordinates
CallWhere(name, coords, cm_shape) ==
    LET D == Len(cm_shape) \div 2
    IN  [idx \in Indices(cm_shape) |->
            CASE name = "first_neg" -> coords[1][idx] < 0
              [] name = "self_conn" -> \A i \in 1 .. D : coords[i][idx] = coords[i + D][idx]
              [] OTHER              -> FALSE]

\* The callables passed as `what`: each takes (coords, cm) and returns an array of
\* cm's shape.
\*   neg_cm:    lambda coords, cm: -cm
\*   last_x10:  lambda coords, cm: coords[-1] * 10
CallWhat(name, coords, cm, cm_shape, den) ==
    [idx \in Indices(cm_shape) |->
        CASE name = "neg_cm"   -> 0 - cm[idx]
          [] name = "last_x10" -> (coords[Len(cm_shape)][idx] * 10) \div den
          [] OTHER             -> 0]

\* mask = where(coords) if callable(where) else np.ones(cm.shape, dtype=bool)
RuleMask(where, coords, cm_shape) ==
    IF where.callable THEN CallWhere(where.name, coords, cm_shape)
    ELSE [idx \in Indices(cm_shape) |-> TRUE]

\* vals = what(coords, cm) if callable(what) else what * np.ones(cm.shape)
RuleVals(what, coords, cm, cm_shape, den) ==
    IF what.callable THEN CallWhat(what.name, coords, cm, cm_shape, den)
    ELSE [idx \in Indices(cm_shape) |-> what.const * 1]

\* A bug the masked assignment could have: the candidate values replace the tensor.
FullAssign(cm, mask, vals) == vals

\* cm[mask] = vals[mask]
MaskedAssign(cm, mask, vals) ==
    [idx \in DOMAIN cm |-> IF mask[idx] THEN vals[idx] ELSE cm[idx]]

\* for (where, what) in funcs: ...
RECURSIVE ApplyFuncs(_, _, _, _, _)
ApplyFuncs(funcs, coords, cm, cm_shape, den) ==
    IF funcs = <<>> THEN cm
    ELSE LET mask == RuleMask(funcs[1].where, coords, cm_shape)
             vals == RuleVals(funcs[1].what, coords, cm, cm_shape, den)
         IN  ApplyFuncs(Tail(funcs), coords, MaskedAssign(cm, mask, vals), cm_shape, den)

----------------------------------------------------------------------------
(* Noise: np.random.random *)

\* The draws of np.random.random are multiples of 1/RandDen in [0, 1).
RandDen == 4

\* The global random state is the environment's: a stream of draws per seed.
RECURSIVE RandomState(_, _)
RandomState(x, count) ==
    IF count = 0 THEN <<>>
    ELSE LET y == (5 * x + 3) % 16
         IN  <<y \div (16 \div RandDen)>> \o RandomState(y, count - 1)

\* A bug the clip could have: only the upper bound is applied.
ClipUpper(x, lo, hi) == Min2(x, hi)

\* np.clip(x, lo, hi), elementwise: minimum(maximum(x, lo), hi)
Clip(x, lo, hi) == Min2(Max2(x, lo), hi)

----------------------------------------------------------------------------
(* Exceptions and the outcome of a call *)

\* An exception: its type, its message, the shapes the message formats in, and
\* the names the message quotes.
Exc(type, text, shapes, mentions) ==
    [type |-> type, text |-> text, shapes |-> shapes, mentions |-> mentions]

NoExc == Exc("", "", <<>>, {})

\* 0 <= noise <= 1
NoiseInRange(noise) == 0 <= noise /\ noise <= RandDen

----------------------------------------------------------------------------
(* TargetWeightsTask.__init__ *)

\* The constructor on arguments a: the attributes it has set on self, the locals it
\* has assigned, and the exception it raised (NoExc when it returned).
TaskInit(a) ==
    LET attrs0 == [substrate_shape |-> a.substrate_shape,
                   max_weight      |-> a.max_weight,
                   fitnessmeasure  |-> a.fitnessmeasure]
    IN  IF ~NoiseInRange(a.noise)
        THEN [self  |-> attrs0,
              built |-> {},
              exc   |-> Exc("Exception", "Noise value has to be between 0 and 1.", <<>>, {})]
        ELSE
          LET cm_shape == a.substrate_shape \o a.substrate_shape
              den      == CoordDen(a.substrate_shape)
              coords   == Mgrid(cm_shape, den)
              locs     == Locs(coords, cm_shape)
              M        == Product(cm_shape)
              cm0      == [idx \in Indices(cm_shape) |-> 1 * a.default_weight]
              cm1      == ApplyFuncs(a.funcs, coords, cm0, cm_shape, den)
              rnd      == RandomState(a.seed, 2 * M)
              mask     == [idx \in Indices(cm_shape) |->
                              rnd[Ravel(idx, cm_shape) + 1] < a.noise]
              random_weights ==
                          [idx \in Indices(cm_shape) |->
                              ((rnd[M + Ravel(idx, cm_shape) + 1] * a.max_weight * 2)
                                  \div RandDen) - a.max_weight]
              cm2      == MaskedAssign(cm1, mask, random_weights)
              P        == Product(a.substrate_shape)
              target0  == Reshape2(cm2, cm_shape, P, P)
              target   == [i \in 1 .. P |-> [j \in 1 .. P |->
                              Clip(target0[i][j], 0 - a.max_weight, a.max_weight)]]
          IN  [self  |-> [substrate_shape |-> a.substrate_shape,
                          max_weight      |-> a.max_weight,
                          fitnessmeasure  |-> a.fitnessmeasure,
                          locs            |-> locs,
                          target          |-> target],
               built |-> {"cm_shape", "coords", "cm", "mask", "random_weights"},
               exc   |-> NoExc]

----------------------------------------------------------------------------
(* numpy.linalg.lstsq(a, b) for a of shape (M, N) and a one-dimensional b *)

\* m without its first row and its j-th column
Minor(m, j) ==
    [r \in 1 .. (Len(m) - 1) |->
        [c \in 1 .. (Len(m) - 1) |-> m[r + 1][IF c < j THEN c ELSE c + 1]]]

\* The determinant of a square matrix, expanded along its first row.
RECURSIVE Det(_)
Det(m) ==
    IF Len(m) = 0 THEN 1
    ELSE IF Len(m) = 1 THEN m[1][1]
    ELSE SumSeq([j \in 1 .. Len(m) |->
             IF m[1][j] = 0 THEN 0
             ELSE (IF j % 2 = 1 THEN 1 ELSE -1) * m[1][j] * Det(Minor(m, j))])

\* a^T a
Gram(a, N) ==
    [i \in 1 .. N |-> [j \in 1 .. N |->
        SumSeq([k \in 1 .. Len(a) |-> a[k][i] * a[k][j]])]]

\* The rows and columns of the square matrix g whose numbers are in the sequence S.
SubMatrix(g, S) == [i \in 1 .. Len(S) |-> [j \in 1 .. Len(S) |-> g[S[i]][S[j]]]]

\* The elements of a set of numbers in increasing order.
RECURSIVE Sorted(_)
Sorted(S) ==
    IF S = {} THEN <<>>
    ELSE LET lo == CHOOSE x \in S : \A y \in S : x <= y
         IN  <<lo>> \o Sorted(S \ {lo})

\* The rank of a: the size of the largest nonsingular principal submatrix of a^T a.
Rank(a, N) ==
    LET g     == Gram(a, N)
        sizes == { Cardinality(S) : S \in { T \in SUBSET (1 .. N) : Det(SubMatrix(g, Sorted(T))) # 0 } }
    IN  CHOOSE r \in sizes : \A q \in sizes : q <= r

\* lstsq's result, for the matrix whose entries are those of a over den: the
\* solution x (a sequence of fractions), the residuals (empty
\* if the rank of a is < N or M <= N, else the one sum of squared residuals, a
\* fraction) and the rank.  x solves the normal equations (a^T a) x = a^T b by
\* Cramer's rule, and the sum of squared residuals is b.b - (a^T b).x.  On a
\* rank-deficient a numpy returns the minimum-norm solution, which the model does
\* not compute: evaluate never reads it (line 62 raises first).
Lstsq(a, den, b) ==
    LET M    == Len(a)
        N    == Len(a[1])
        g    == Gram(a, N)
        dg   == Det(g)
        atb  == [i \in 1 .. N |-> SumSeq([k \in 1 .. M |-> a[k][i] * b[k]])]
        dx   == [i \in 1 .. N |->
                    Det([r \in 1 .. N |-> [c \in 1 .. N |->
                            IF c = i THEN atb[r] ELSE g[r][c]]])]
        bb   == SumSeq([k \in 1 .. M |-> b[k] * b[k]])
        full == dg # 0
    IN  [x         |-> IF full THEN [i \in 1 .. N |-> <<den * dx[i], dg>>] ELSE <<>>,
         residuals |-> IF ~full \/ M <= N THEN <<>>
                       ELSE << <<dg * bb - SumSeq([i \in 1 .. N |-> atb[i] * dx[i]]), dg>> >>,
         rank      |-> IF full THEN N ELSE Rank(a, N)]

----------------------------------------------------------------------------
(* TargetWeightsTask.evaluate *)

\* How a call ended: it returned ("return") or raised ("raise"); the exception;
\* evaluate's record; solve's boolean; the locals assigned before it ended; the
\* side effects on the file system and the image sink, in order, and the image.
NoValue ==
    [fitness     |-> [form |-> "", num |-> 0, den |-> 1],
     error       |-> 0,
     diff        |-> <<0, 1>>,
     diff_lsq    |-> <<0, 1>>,
     correct     |-> <<0, 1>>,
     err_nonlin  |-> <<0, 1>>,
     diff_nonlin |-> <<0, 1>>,
     residue     |-> <<0, 1>>]

Raised(exc, computed) ==
    [kind |-> "raise", exc |-> exc, value |-> NoValue, solved |-> FALSE,
     computed |-> computed, events |-> <<>>, image |-> <<>>]

Returned(value, solved, computed) ==
    [kind |-> "return", exc |-> NoExc, value |-> value, solved |-> solved,
     computed |-> computed, events |-> <<>>, image |-> <<>>]

\* A bug the shape check could have: only the number of entries is compared.
SizesDiffer(cmShape, targetShape) == Product(cmShape) # Product(targetShape)

\* network.cm.shape != self.target.shape
ShapesDiffer(cmShape, targetShape) == cmShape # targetShape

\* diff < (self.max_weight / 10.0), for one entry's diff d
WithinTenth(d, max_weight) == 10 * d < max_weight

\* evaluate on the candidate net.  A candidate that is no NeuralNetwork is
\* wrapped by NeuralNetwork(network) (lines 52-53, a class outside this file);
\* net.cm is the connectivity matrix either way.
TaskEvaluate(obj, net) ==
    LET cm == net.cm
    IN  IF ShapesDiffer(MatShape(cm), MatShape(obj.target))
        THEN Raised(Exc("Exception",
                        "Network shape (%s) does not match target shape (%s).",
                        <<MatShape(cm), MatShape(obj.target)>>, {}), {})
        ELSE
          LET c      == MatFlat(cm)
              t      == MatFlat(obj.target)
              n      == Len(t)
              diff   == [k \in 1 .. n |-> Abs(c[k] - t[k])]
              err    == SumSeq([k \in 1 .. n |-> (c[k] - t[k]) * (c[k] - t[k])])
              den    == CoordDen(obj.substrate_shape)
              lst    == Lstsq(obj.locs, den, t)
          IN  IF lst.residuals = <<>>
              THEN Raised(Exc("IndexError", "index out of bounds", <<>>, {}),
                          {"diff", "err", "x", "res"})
              ELSE
                LET x        == lst.x
                    res      == lst.residuals[1]
                    dg       == res[2]
                    N        == Len(x)
                    \* np.abs(np.dot(self.locs, x) - self.target.flat), over dg
                    diff_lsq == [k \in 1 .. n |->
                                    Abs((SumSeq([i \in 1 .. N |-> obj.locs[k][i] * x[i][1]]) \div den)
                                        - dg * t[k])]
                    sdiff    == SumSeq(diff)
                    sdlsq    == SumSeq(diff_lsq)
                    diff_nonlin == <<sdlsq - sdiff * Abs(dg), Abs(dg) * n>>
                    correct  == <<Cardinality({k \in 1 .. n : WithinTenth(diff[k], obj.max_weight)}), n>>
                    nonlinear == <<res[1] - err * dg, dg>>
                    locals   == {"diff", "err", "x", "res", "diff_lsq", "diff_nonlin",
                                 "correct", "nonlinear"}
                IN  IF obj.fitnessmeasure \notin {"absdiff", "sqerr"}
                    THEN \* neither branch assigns fitness: line 74 reads an unbound local
                         Raised(Exc("UnboundLocalError",
                                    "local variable 'fitness' referenced before assignment",
                                    <<>>, {"fitness"}), locals)
                    ELSE
                      LET fitness ==
                            IF obj.fitnessmeasure = "absdiff"
                            THEN \* 2 ** mean(2 * max_weight - diff)
                                 [form |-> "2**(num/den)",
                                  num  |-> SumSeq([k \in 1 .. n |-> 2 * obj.max_weight - diff[k]]),
                                  den  |-> n]
                            ELSE \* 1 / (1 + err)
                                 [form |-> "num/den", num |-> 1, den |-> 1 + err]
                      IN  Returned([fitness     |-> fitness,
                                    error       |-> err,
                                    diff        |-> <<sdiff, n>>,
                                    diff_lsq    |-> <<sdlsq, Abs(dg) * n>>,
                                    correct     |-> correct,
                                    err_nonlin  |-> nonlinear,
                                    diff_nonlin |-> diff_nonlin,
                                    residue     |-> res],
                                   FALSE, locals \cup {"fitness"})

\* A bug the threshold could have: a fraction of exactly 0.8 passes.
AtLeastThreshold(correct) == 5 * correct[1] >= 4 * correct[2]

\* correct > 0.8, for the fraction correct = <<count, n>>
AboveThreshold(correct) == 5 * correct[1] > 4 * correct[2]

\* TargetWeightsTask.solve
TaskSolve(obj, net) ==
    LET out == TaskEvaluate(obj, net)
    IN  IF out.kind = "raise" THEN out
        ELSE Returned(NoValue, AboveThreshold(out.value.correct), out.computed)

----------------------------------------------------------------------------
(* TargetWeightsTask.visualize, os.path and the image sink *)

\* A path is the sequence of its components; '' is the empty sequence.
\* os.path.dirname(filename)
Dirname(filename) == SubSeq(filename, 1, Len(filename) - 1)

\* os.path.exists(directory): the empty path '' names nothing.
PathExists(directory, fs) == directory # <<>> /\ directory \in fs

\* Whether a file can be created at filename: its parent, the cwd for a bare
\* name, is a directory.
ParentPresent(filename, fs) == Dirname(filename) = <<>> \/ Dirname(filename) \in fs

\* os.makedirs(directory): the directory and the missing ones above it; mkdir('')
\* fails.
Makedirs(directory, fs) ==
    IF directory = <<>>
    THEN [fs |-> fs, exc |-> Exc("OSError", "[Errno 2] No such file or directory: ''", <<>>, {})]
    ELSE [fs  |-> fs \cup { SubSeq(directory, 1, k) : k \in 1 .. Len(directory) },
          exc |-> NoExc]

\* Whether numpy broadcasts two matrix shapes against each other.
Broadcastable(s1, s2) ==
    \A d \in 1 .. 2 : s1[d] = s2[d] \/ s1[d] = 1 \/ s2[d] = 1

\* (cm - target) ** 2, with a one-row or one-column operand broadcast
SquaredError(cm, target) ==
    LET r == Max2(Len(cm), Len(target))
        c == Max2(Len(cm[1]), Len(target[1]))
        At(m, i, j) == m[IF Len(m) = 1 THEN 1 ELSE i][IF Len(m[1]) = 1 THEN 1 ELSE j]
    IN  [i \in 1 .. r |-> [j \in 1 .. c |->
            (At(cm, i, j) - At(target, i, j)) * (At(cm, i, j) - At(target, i, j))]]

\* np.hstack of three matrices with the same number of rows
Hstack(m1, m2, m3) == [i \in 1 .. Len(m1) |-> m1[i] \o m2[i] \o m3[i]]

\* visualize on (network, filename) with the file system fs: how the call ended
\* and the file system after it.  The matplotlib set-up of lines 87-89 has no
\* part in it.
TaskVisualize(obj, net, filename, fs) ==
    LET cm     == net.cm
        target == obj.target
    IN  IF ~Broadcastable(MatShape(cm), MatShape(target))
        THEN [out |-> Raised(Exc("ValueError", "operands could not be broadcast together",
                                 <<MatShape(cm), MatShape(target)>>, {}), {"cm", "target"}),
              fs  |-> fs]
        ELSE
          LET error     == SquaredError(cm, target)
              directory == Dirname(filename)
              made      == IF ~PathExists(directory, fs) THEN Makedirs(directory, fs)
                           ELSE [fs |-> fs, exc |-> NoExc]
              ev1       == IF ~PathExists(directory, fs) THEN <<"makedirs">> ELSE <<>>
              locals    == {"cm", "target", "error", "directory"}
          IN  IF made.exc # NoExc
              THEN [out |-> [Raised(made.exc, locals) EXCEPT !.events = ev1], fs |-> fs]
              ELSE IF Len(cm) # Len(target) \/ Len(target) # Len(error)
              THEN [out |-> [Raised(Exc("ValueError",
                                        "all the input array dimensions except for the concatenation axis must match exactly",
                                        <<>>, {}), locals) EXCEPT !.events = ev1],
                    fs  |-> made.fs]
              ELSE IF ~ParentPresent(filename, made.fs)
              THEN [out |-> [Raised(Exc("IOError", "[Errno 2] No such file or directory",
                                        <<>>, {}), locals) EXCEPT !.events = ev1],
                    fs  |-> made.fs]
              ELSE [out |-> [Returned(NoValue, FALSE, locals)
                                EXCEPT !.events = ev1 \o <<"imsave">>,
                                       !.image  = Hstack(cm, target, error)],
                    fs  |-> made.fs]

----------------------------------------------------------------------------
(* The inputs the model draws from *)

\* Override rules are drawn from Rules, in lists of at most MaxFuncs.
MaxFuncs == 2

\* Random streams are drawn from the seeds 0 .. MaxSeed.
MaxSeed == 1

Shapes == { <<1>>, <<2>>, <<3>>, <<5>>, <<1, 2>>, <<2, 2>> }

MaxWeights == { 10, 20 }

DefaultWeights == { 0, 15 }

\* Noise, over RandDen: -0.25, 0, 0.5, 1, 1.25
Noises == { -1, 0, 2, 4, 5 }

Modes == { "absdiff", "sqerr", "maxdiff" }

Constant(c) == [callable |-> FALSE, name |-> "", const |-> c]

Callable(name) == [callable |-> TRUE, name |-> name, const |-> 0]

Rules ==
    { [where |-> Constant(1),             what |-> Constant(5)],
      [where |-> Callable("first_neg"),   what |-> Constant(-30)],
      [where |-> Callable("self_conn"),   what |-> Callable("neg_cm")],
      [where |-> Callable("first_neg"),   what |-> Callable("last_x10")] }

FuncLists == UNION { [1 .. k -> Rules] : k \in 0 .. MaxFuncs }

Config(dw, sh, nz, mw, fl, fm, sd) ==
    [default_weight |-> dw, substrate_shape |-> sh, noise |-> nz, max_weight |-> mw,
     funcs |-> fl, fitnessmeasure |-> fm, seed |-> sd]

\* The seed matters only where an entry can be drawn: 0 < noise <= 1.
SeedsFor(nz) == IF 0 < nz /\ nz <= RandDen THEN 0 .. MaxSeed ELSE {0}

\* The constructor calls of the construction specification: every list of rules
\* without noise, and every noise value with the lists of at most one rule.
BuildConfigs ==
    { Config(dw, sh, 0, mw, fl, "absdiff", 0) :
        dw \in DefaultWeights, sh \in Shapes, mw \in MaxWeights, fl \in FuncLists }
    \cup
    UNION { { Config(dw, sh, nz, mw, fl, "absdiff", sd) :
                dw \in DefaultWeights, sh \in Shapes, mw \in MaxWeights,
                fl \in { f \in FuncLists : Len(f) <= 1 }, sd \in SeedsFor(nz) } :
            nz \in Noises }

\* The constructor calls of the evaluation specifications.
EvalConfigs ==
    UNION { { Config(0, sh, 0, mw, <<>>, fm, 0),
              Config(15, sh, 0, mw,
                     <<[where |-> Callable("first_neg"), what |-> Callable("last_x10")]>>, fm, 0),
              Config(0, sh, 2, mw,
                     <<[where |-> Callable("self_conn"), what |-> Constant(5)]>>, fm, MaxSeed) } :
            sh \in Shapes, mw \in MaxWeights, fm \in Modes }

\* The signature's defaults (max_weight 3.0; no random stream is drawn from).
Defaults == Config(0, <<3, 3>>, 0, 30, <<>>, "absdiff", 0)

Zeros(r, c) == [i \in 1 .. r |-> [j \in 1 .. c |-> 0]]

\* The matrix m with d added to its first k entries, in row-major order.
Perturb(m, k, d) ==
    LET c == Len(m[1])
    IN  [i \in 1 .. Len(m) |-> [j \in 1 .. c |->
            IF (i - 1) * c + j <= k THEN m[i][j] + d ELSE m[i][j]]]

\* The candidates passed to a task with target matrix t: the target itself, the
\* target off by d in its first k entries, and matrices of other shapes.
Candidates(t) ==
    LET P == Len(t)
        n == P * P
    IN  { Perturb(t, k, d) : k \in { 0, n \div 5, (n \div 5) + 1, n } \cap (0 .. n),
                             d \in { -2, 1 } }
        \cup { Zeros(1, 1), Zeros(1, n), Zeros(P, P + 1) }

Filenames == { <<"out.png">>, <<"a", "out.png">>, <<"a", "b", "out.png">> }

----------------------------------------------------------------------------
(* The state machine *)

NoCall ==
    [op |-> "", filename |-> <<>>, network |-> [cm |-> <<>>],
     out |-> Returned(NoValue, FALSE, {})]

Init ==
    /\ pc = "new"
    /\ args = Defaults
    /\ self = <<>>
    /\ network = [cm |-> <<>>]
    /\ lastCall = NoCall
    /\ dirs = {}

InitVis ==
    /\ pc = "new"
    /\ args = Defaults
    /\ self = <<>>
    /\ network = [cm |-> <<>>]
    /\ lastCall = NoCall
    /\ dirs \in { {}, { <<"a">> } }

\* task = TargetWeightsTask(**a)
Construct(a) ==
    /\ pc = "new"
    /\ LET r == TaskInit(a)
       IN  /\ self' = r.self
           /\ pc' = IF r.exc = NoExc THEN "ready" ELSE "failed"
           /\ lastCall' = [op |-> "__init__", filename |-> <<>>, network |-> [cm |-> <<>>],
                           out |-> IF r.exc = NoExc THEN Returned(NoValue, FALSE, r.built)
                                   ELSE Raised(r.exc, r.built)]
    /\ args' = a
    /\ UNCHANGED <<network, dirs>>

\* A bug evaluate could have: the difference is taken in place, in the target.
EffectInPlace(obj, net) ==
    [self    |-> [obj EXCEPT !.target = Zeros(Len(obj.target), Len(obj.target))],
     network |-> net]

\* What evaluate (and so solve) leaves of the task and of the candidate passed
\* in: it assigns no attribute and writes to no array.
EvaluateEffect(obj, net) == [self |-> obj, network |-> net]

\* task.evaluate(c)
Evaluate ==
    /\ pc = "ready"
    /\ \E c \in Candidates(self.target) :
          LET net == [cm |-> c]
              eff == EvaluateEffect(self, net)
          IN  /\ lastCall' = [op |-> "evaluate", filename |-> <<>>, network |-> net,
                              out |-> TaskEvaluate(self, net)]
              /\ self' = eff.self
              /\ network' = eff.network
    /\ UNCHANGED <<pc, args, dirs>>

\* task.solve(c)
Solve ==
    /\ pc = "ready"
    /\ \E c \in Candidates(self.target) :
          LET net == [cm |-> c]
              eff == EvaluateEffect(self, net)
          IN  /\ lastCall' = [op |-> "solve", filename |-> <<>>, network |-> net,
                              out |-> TaskSolve(self, net)]
              /\ self' = eff.self
              /\ network' = eff.network
    /\ UNCHANGED <<pc, args, dirs>>

\* task.visualize(network, filename)
Visualize ==
    /\ pc = "ready"
    /\ \E c \in Candidates(self.target), f \in Filenames :
          LET net == [cm |-> c]
              r   == TaskVisualize(self, net, f, dirs)
          IN  /\ lastCall' = [op |-> "visualize", filename |-> f, network |-> net,
                              out |-> r.out]
              /\ dirs' = r.fs
              /\ network' = net
    /\ UNCHANGED <<pc, args, self>>

ConstructEval == \E a \in EvalConfigs : Construct(a)

ConstructBuild == \E a \in BuildConfigs : Construct(a)

\* Construction, then any sequence of evaluate and solve calls.
Next == ConstructEval \/ Evaluate \/ Solve

Spec == Init /\ [][Next]_vars

\* Construction alone, over the wider set of constructor calls.
NextBuild == ConstructBuild

SpecBuild == Init /\ [][NextBuild]_vars

\* Construction, then any sequence of visualize calls.
NextVis == ConstructEval \/ Visualize

SpecVis == InitVis /\ [][NextVis]_vars

----------------------------------------------------------------------------
(* Properties of construction (specification SpecBuild) *)

Built == pc = "ready" /\ lastCall.op = "__init__"

\* C1: for max_weight > 0, whatever the shape, the default weight, the rules
\* and the noise in [0, 1], the target built by the constructor is a square
\* matrix of side product(substrate_shape), it has as many entries as locs has
\* rows, and each of its entries lies in [-max_weight, max_weight].
C1_TargetSquareAndBounded ==
    (pc = "ready" /\ args.max_weight > 0) =>
        LET P == Product(args.substrate_shape)
        IN  /\ Len(self.target) = P
            /\ \A i \in 1 .. P : Len(self.target[i]) = P
            /\ Len(self.locs) = P * P
            /\ \A i \in 1 .. P : \A j \in 1 .. P :
                  /\ 0 - args.max_weight <= self.target[i][j]
                  /\ self.target[i][j] <= args.max_weight

\* A task built with noise and a rule whose value lies below -max_weight, on a
\* default weight above max_weight: entries were clipped at both bounds.
C1_Witness ==
    /\ Built
    /\ args.noise = 2
    /\ args.default_weight > args.max_weight
    /\ \E r \in 1 .. Len(args.funcs) :
          ~args.funcs[r].what.callable /\ args.funcs[r].what.const < 0 - args.max_weight
    /\ \E i, j \in 1 .. Len(self.target) : self.target[i][j] = args.max_weight
    /\ \E i, j \in 1 .. Len(self.target) : self.target[i][j] = 0 - args.max_weight

\* What the rules say of one connection, stated on its index tuple idx over
\* substrate_shape + substrate_shape.
RuleSelects(rule, sh, idx) ==
    IF ~rule.where.callable THEN TRUE
    ELSE IF rule.where.name = "first_neg"
         THEN sh[1] = 1 \/ 2 * (idx[1] - 1) < sh[1] - 1
         ELSE \A i \in 1 .. Len(sh) : idx[i] = idx[i + Len(sh)]

RuleSupplies(rule, sh, idx, before) ==
    IF ~rule.what.callable THEN rule.what.const
    ELSE IF rule.what.name = "neg_cm" THEN 0 - before
    ELSE LET s == sh[Len(sh)]
         IN  IF s = 1 THEN -10 ELSE -10 + (20 * (idx[2 * Len(sh)] - 1)) \div (s - 1)

\* The value of the last rule of funcs that selects idx, or dw when none does.
RECURSIVE OverlayAt(_, _, _, _)
OverlayAt(funcs, dw, sh, idx) ==
    IF funcs = <<>> THEN dw
    ELSE LET last   == funcs[Len(funcs)]
             before == OverlayAt(SubSeq(funcs, 1, Len(funcs) - 1), dw, sh, idx)
         IN  IF RuleSelects(last, sh, idx) THEN RuleSupplies(last, sh, idx, before)
             ELSE before

\* C2: with noise = 0, every target entry is clip(v, -max_weight, max_weight)
\* for v the value of the last rule, in list order, whose mask selects the
\* connection, or default_weight when no rule selects it; a predicate that is
\* not callable selects every connection, a value that is not callable is a
\* constant, and a rule changes nothing outside its mask.
C2_LastSelectingRuleWins ==
    (pc = "ready" /\ args.noise = 0) =>
        LET sh == args.substrate_shape
            P  == Product(sh)
            mw == args.max_weight
        IN  \A i \in 1 .. P : \A j \in 1 .. P :
              LET v == OverlayAt(args.funcs, args.default_weight, sh,
                                 Unravel(i - 1, sh) \o Unravel(j - 1, sh))
              IN  self.target[i][j] = (IF v < 0 - mw THEN 0 - mw ELSE IF v > mw THEN mw ELSE v)

\* Two rules whose masks overlap on some connections and not on others: the
\* second one's value stands where both select, the first one's elsewhere.
C2_Witness ==
    /\ Built
    /\ args.noise = 0
    /\ Len(args.funcs) = 2
    /\ ~args.funcs[1].where.callable /\ args.funcs[1].what.const = 5
    /\ args.funcs[2].where.callable /\ args.funcs[2].what.const = -30
    /\ \E i, j \in 1 .. Len(self.target) : self.target[i][j] = 5
    /\ \E i, j \in 1 .. Len(self.target) : self.target[i][j] = 0 - args.max_weight

\* C6: a constructor call with noise < 0 or noise > 1 raises before anything is
\* computed: no grid, no locs, no target, and no state is left on the task; a
\* call with noise in [0, 1], the endpoints included, is accepted.
C6_InvalidNoiseLeavesNothing ==
    (pc # "new") =>
        /\ (pc = "failed") <=> (args.noise < 0 \/ args.noise > RandDen)
        /\ (pc = "failed") =>
              /\ lastCall.out.kind = "raise"
              /\ lastCall.out.computed = {}
              /\ DOMAIN self = {}

----------------------------------------------------------------------------
(* Properties of evaluate and solve (specification Spec) *)

\* The last call was method op, on a candidate of the target's shape or not.
Called(op) == pc = "ready" /\ lastCall.op = op

SameShape == MatShape(lastCall.network.cm) = MatShape(self.target)

\* C3: on every constructed task, evaluate on a candidate identical to the
\* target returns a record with error = 0, diff = 0 and correct = 1.
C3_TargetScoresPerfect ==
    (Called("evaluate") /\ lastCall.network.cm = self.target) =>
        /\ lastCall.out.kind = "return"
        /\ lastCall.out.value.error = 0
        /\ lastCall.out.value.diff[1] = 0
        /\ lastCall.out.value.correct[1] = lastCall.out.value.correct[2]

\* C4: evaluate on a candidate whose shape differs from the target's raises an
\* error that carries both shapes, before any metric is computed, and returns
\* no record.
C4_ShapeMismatchRaisesFirst ==
    (Called("evaluate") /\ ~SameShape) =>
        /\ lastCall.out.kind = "raise"
        /\ lastCall.out.exc.shapes = <<MatShape(lastCall.network.cm), MatShape(self.target)>>
        /\ lastCall.out.computed = {}
        /\ lastCall.out.value = NoValue

\* evaluate raised on a candidate with as many entries as the target, in
\* another shape.
C4_Witness ==
    /\ Called("evaluate")
    /\ ~SameShape
    /\ Len(self.target) > 1
    /\ Len(lastCall.network.cm) * Len(lastCall.network.cm[1])
          = Len(self.target) * Len(self.target)
    /\ lastCall.out.kind = "raise"

\* C5: a task built with a fitness measure other than 'absdiff' and 'sqerr' is
\* constructed, and each of its evaluate calls on a candidate of the target's
\* shape raises an error that surfaces the mode; none returns a record.  Stated
\* on the shapes without a unit axis, where evaluate gets as far as the fitness
\* (on the others it raises at the least-squares residual, see C10).
C5_UnsupportedModeSurfaced ==
    (/\ pc # "new"
     /\ args.fitnessmeasure \notin {"absdiff", "sqerr"}
     /\ \A i \in 1 .. Len(args.substrate_shape) : args.substrate_shape[i] > 1) =>
        /\ pc = "ready"
        /\ (lastCall.op = "evaluate" /\ SameShape) =>
              /\ lastCall.out.kind = "raise"
              /\ args.fitnessmeasure \in lastCall.out.exc.mentions

\* C7: evaluate and solve, returning or raising, leave the task (its target, its
\* locs, max_weight, the fitness mode) and the candidate passed in as they were;
\* so evaluate called again on the same candidate ends the same way.
C7_CallsLeaveStateAlone ==
    [][ pc = "ready" =>
          /\ self' = self
          /\ network' = lastCall'.network
          /\ (/\ lastCall.op = "evaluate"
              /\ lastCall'.op = "evaluate"
              /\ lastCall'.network = lastCall.network) => lastCall'.out = lastCall.out ]_vars

\* A solve call returned on a candidate that differs from a nonzero target:
\* the task and the candidate are as they were passed in.
C7_Witness ==
    /\ Called("solve")
    /\ lastCall.out.kind = "return"
    /\ SameShape
    /\ network.cm # self.target
    /\ network = lastCall.network
    /\ \E i, j \in 1 .. Len(self.target) : self.target[i][j] # 0

\* The number of entries of the candidate closer to the target than
\* max_weight / 10.
CloseEntries ==
    Cardinality({ ij \in (1 .. Len(self.target)) \X (1 .. Len(self.target)) :
                    10 * Abs(lastCall.network.cm[ij[1]][ij[2]] - self.target[ij[1]][ij[2]])
                        < self.max_weight })

\* C8: where evaluate returns, solve returns whether the fraction of entries
\* that differ from the target by strictly less than max_weight / 10 is
\* strictly above 0.8; where evaluate raises, solve raises the same error.
C8_SolveIsCorrectAboveThreshold ==
    Called("solve") =>
        LET ev == TaskEvaluate(self, lastCall.network)
            n  == Len(self.target) * Len(self.target)
        IN  IF ev.kind = "raise"
            THEN lastCall.out.kind = "raise" /\ lastCall.out.exc = ev.exc
            ELSE /\ lastCall.out.kind = "return"
                 /\ lastCall.out.solved <=> (10 * CloseEntries > 8 * n)

\* solve returned false on a candidate with exactly 0.8 of its entries close,
\* one of the others exactly max_weight / 10 off.
C8_Witness ==
    /\ Called("solve")
    /\ lastCall.out.kind = "return"
    /\ ~lastCall.out.solved
    /\ 10 * CloseEntries = 8 * Len(self.target) * Len(self.target)
    /\ 10 * Abs(lastCall.network.cm[1][1] - self.target[1][1]) = self.max_weight

\* C10: for every shape of positive integers, a unit axis included, a supported
\* mode and a candidate of the target's shape, evaluate raises nothing and
\* returns the record of eight fields, read off a least-squares residual that
\* is always there.
C10_EvaluateAlwaysReturns ==
    (Called("evaluate") /\ SameShape /\ self.fitnessmeasure \in {"absdiff", "sqerr"}) =>
        /\ lastCall.out.kind = "return"
        /\ "res" \in lastCall.out.computed
        /\ DOMAIN lastCall.out.value =
              {"fitness", "error", "diff", "diff_lsq", "correct", "err_nonlin",
               "diff_nonlin", "residue"}

----------------------------------------------------------------------------
(* Properties of visualize (specification SpecVis) *)

\* C9: for every output path, visualize sees to it that the parent directory
\* exists, creating it if it is absent, and then hands the sink candidate,
\* target and squared error side by side; nothing is written while the parent
\* directory is missing.
C9_VisualizeWritesUnderParent ==
    (Called("visualize") /\ SameShape) =>
        /\ lastCall.out.kind = "return"
        /\ ParentPresent(lastCall.filename, dirs)
        /\ lastCall.out.events # <<>>
        /\ lastCall.out.events[Len(lastCall.out.events)] = "imsave"
        /\ lastCall.out.image =
              [i \in 1 .. Len(self.target) |->
                  lastCall.network.cm[i] \o self.target[i]
                  \o [j \in 1 .. Len(self.target) |->
                        (lastCall.network.cm[i][j] - self.target[i][j])
                        * (lastCall.network.cm[i][j] - self.target[i][j])]]

====
